---------------------------- MODULE Spec2Model ----------------------------
(***************************************************************************)
(* Model of imet/main.py: the training loop `train` with its checkpoint,   *)
(* learning-rate schedule and patience-based decay, the two training       *)
(* phases started by `main`, and the label decision procedure              *)
(* `binarize_prediction` / `_make_mask`.                                   *)
(*                                                                         *)
(* Numbers.  Probabilities and thresholds are integers in units of 0.05    *)
(* (0.9 is 18, 0.15 is 3).  Class and row indices are 1-based here and     *)
(* 0-based in the source.  The learning rate is an integer number of       *)
(* units of args.lr / (25 * Den), see args_lr.  float('inf') is Inf.       *)
(***************************************************************************)
EXTENDS Integers, Sequences, FiniteSets, TLC

(* ------------------------------ bounds -------------------------------- *)
\* largest generic probability level (units of 0.05)
MaxProb == 2
\* largest candidate threshold (units of 0.05)
MaxThreshold == 3
\* largest min_labels / max_labels argument tried (exceeds N_CLASSES)
MaxLabels == 4
\* row counts of the probability matrices tried
RowCounts == {1, 2}
\* validation losses are drawn from 1..MaxLoss
MaxLoss == 2
\* args.n_epochs
MaxEpochs == 8
\* largest args.patience tried
MaxPatience == 2
\* largest args.schedule_length tried
MaxScheduleLength == 2
\* largest number of batches per epoch tried
MaxBatches == 3
\* largest args.step (gradient accumulation factor) tried
MaxAccum == 2
\* number of times the process (main) is started on the same run directory
MaxRuns == 2

\* number of classes, imported from .dataset; scaled down to 3 columns
N_CLASSES == 3
\* float('inf'): larger than every validation loss
Inf == 1000
\* default of train's max_lr_changes parameter; main never passes another
max_lr_changes == 2

(* ------------------------------ helpers ------------------------------- *)
Min2(a, b) == IF a < b THEN a ELSE b

\* number of ones in a 0/1 row
Ones(row) == Cardinality({c \in DOMAIN row : row[c] = 1})

\* numpy's elementwise & and | on 0/1 values
BitAnd(a, b) == IF a = 1 /\ b = 1 THEN 1 ELSE 0
BitOr(a, b) == IF a = 1 \/ b = 1 THEN 1 ELSE 0

(***************************************************************************)
(* binarize_prediction and _make_mask (main.py 353-371)                    *)
(***************************************************************************)

\* probabilities.argsort(axis=1): every row-wise ascending ranking.  numpy's
\* default sort is not stable, so the order among equal values is any order.
RowArgsorts(row) ==
    {f \in [1..Len(row) -> 1..Len(row)] :
        /\ \A a, b \in 1..Len(row) : a # b => f[a] # f[b]
        /\ \A a, b \in 1..Len(row) : a < b => row[f[a]] <= row[f[b]]}

RECURSIVE ArgsortsFrom(_, _)
ArgsortsFrom(p, r) ==
    IF r > Len(p) THEN {<<>>}
    ELSE {<<f>> \o rest : f \in RowArgsorts(p[r]), rest \in ArgsortsFrom(p, r + 1)}

Argsorts(p) == ArgsortsFrom(p, 1)

\* _make_mask: argsorted[:, -top_n:] keeps W = min(top_n, cols) columns of
\* every row, reshape(-1) flattens them row-major, and the row of flat
\* element i is taken to be i // top_n.
_make_mask(argsorted_, top_n) ==
    LET R == Len(argsorted_)
        cols == Len(argsorted_[1])
        W == Min2(top_n, cols)
        flat == 0..(R * W - 1)
        col_indices == [j \in flat |-> argsorted_[(j \div W) + 1][cols - W + (j % W) + 1]]
        row_indices == [j \in flat |-> j \div top_n]
    IN  [r \in 1..R |-> [c \in 1..cols |->
            IF \E j \in flat : row_indices[j] + 1 = r /\ col_indices[j] = c
            THEN 1 ELSE 0]]

\* prob_mask compared the wrong way round
binarize_prediction_below(probs, th, argsorted_, min_labels_, max_labels_) ==
    LET max_mask == _make_mask(argsorted_, max_labels_)
        min_mask == _make_mask(argsorted_, min_labels_)
    IN  [r \in 1..Len(probs) |-> [c \in 1..Len(probs[r]) |->
            BitOr(BitAnd(max_mask[r][c], IF probs[r][c] < th THEN 1 ELSE 0),
                  min_mask[r][c])]]

\* the max mask joined with | instead of &
binarize_prediction_or(probs, th, argsorted_, min_labels_, max_labels_) ==
    LET max_mask == _make_mask(argsorted_, max_labels_)
        min_mask == _make_mask(argsorted_, min_labels_)
    IN  [r \in 1..Len(probs) |-> [c \in 1..Len(probs[r]) |->
            BitOr(BitOr(max_mask[r][c], IF probs[r][c] > th THEN 1 ELSE 0),
                  min_mask[r][c])]]

\* binarize_prediction: (max_mask & prob_mask) | min_mask, prob_mask = probs > th
binarize_prediction(probs, th, argsorted_, min_labels_, max_labels_) ==
    LET max_mask == _make_mask(argsorted_, max_labels_)
        min_mask == _make_mask(argsorted_, min_labels_)
    IN  [r \in 1..Len(probs) |-> [c \in 1..Len(probs[r]) |->
            BitOr(BitAnd(max_mask[r][c], IF probs[r][c] > th THEN 1 ELSE 0),
                  min_mask[r][c])]]


(***************************************************************************)
(* State                                                                   *)
(***************************************************************************)
VARIABLES
    \* --- binarize_prediction and its caller's threshold loop
    probabilities, argsorted, threshold, min_labels, max_labels, prediction, bpc,
    \* --- the run: command line, loader, run directory, model
    args,           \* scheduler, schedule_length, step, patience, n_epochs, two_phase
    n_batches,      \* batches the train loader yields per epoch
    model_pt,       \* run_root / 'model.pt'
    best_model_pt,  \* run_root / 'best-model.pt'
    best_model_loss, \* the validation loss measured for the weights in best-model.pt
    weights,        \* model parameters: number of optimizer updates applied to them
    grad,           \* batches accumulated in the parameters' gradients
    mpc,            \* position of main
    runs,           \* processes started so far on this run directory
    \* --- locals of train
    pc, lr, optimizer, epoch, range_next, step, best_valid_loss, lr_changes,
    step_first, n_epochs, valid_losses, lr_reset_epoch, i, valid_loss, ret

binVars == <<probabilities, argsorted, threshold, min_labels, max_labels, prediction, bpc>>
runVars == <<args, n_batches, model_pt, best_model_pt, best_model_loss, weights, grad,
            mpc, runs>>
trainVars == <<pc, lr, optimizer, epoch, range_next, step, best_valid_loss, lr_changes,
               step_first, n_epochs, valid_losses, lr_reset_epoch, i, valid_loss, ret>>
vars == <<binVars, runVars, trainVars>>

(***************************************************************************)
(* Inputs of binarize_prediction                                           *)
(***************************************************************************)
\* the matrix of the end-to-end scenario: [[0.9, 0.2, 0.05], [0.1, 0.1, 0.1]]
ScenarioProbabilities == << <<18, 4, 1>>, <<2, 2, 2>> >>

ProbMatrices ==
    UNION {[1..n -> [1..N_CLASSES -> 1..MaxProb]] : n \in RowCounts}
        \cup {ScenarioProbabilities}

Thresholds == 1..MaxThreshold

BinIdle ==
    /\ probabilities = <<>>
    /\ argsorted = <<>>
    /\ threshold = 0
    /\ min_labels = 1
    /\ max_labels = 1
    /\ prediction = <<>>
    /\ bpc = "off"

InitBin ==
    /\ probabilities \in ProbMatrices
    /\ min_labels \in 1..MaxLabels
    /\ max_labels \in min_labels..MaxLabels
    /\ argsorted = <<>>
    /\ threshold = 0
    /\ prediction = <<>>
    /\ bpc = "input"

\* all_predictions.argsort(axis=1) in validation, probabilities.argsort(axis=1)
\* in binarize_prediction when no ranking is passed
Argsort ==
    /\ bpc = "input"
    /\ argsorted' \in Argsorts(probabilities)
    /\ bpc' = "sorted"
    /\ UNCHANGED <<probabilities, threshold, min_labels, max_labels, prediction>>

\* one call binarize_prediction(probabilities, threshold, argsorted, ...) of the
\* caller's loop over candidate thresholds; the assert on the column count
\* guards it
BinarizeCall ==
    /\ bpc \in {"sorted", "binarized"}
    /\ \A r \in 1..Len(probabilities) : Len(probabilities[r]) = N_CLASSES
    /\ \E t \in Thresholds :
        /\ threshold' = t
        /\ prediction' = binarize_prediction(probabilities, t, argsorted,
                                             min_labels, max_labels)
    /\ bpc' = "binarized"
    /\ UNCHANGED <<probabilities, argsorted, min_labels, max_labels>>

(***************************************************************************)
(* train (main.py 188-306) and main (main.py 94-130)                       *)
(***************************************************************************)
Schedulers == {"none", "one_cycle", "linear"}

\* denominator of the schedule multipliers: 0.9 / L and 0.1 are 90 / (100 L)
\* and 10 L / (100 L)
Den(a) == IF a.scheduler = "none" THEN 100 ELSE 100 * a.schedule_length

\* args.lr, in units that keep two divisions by 5 and every multiplier exact
args_lr == 25 * Den(args)

NoFile == [exists |-> FALSE, model |-> 0, epoch |-> 0, step |-> 0, best_valid_loss |-> 0]

\* the positions of train inside its try block (lines 254-299)
TryPcs == {"batch", "opt_step", "zero_grad", "step_inc", "sched_step",
           "save", "validate", "lr_update"}

\* the last branch without its factor 0.1
lr_func_one_cycle_steep(s) ==
    LET L == args.schedule_length
    IN  IF s < L THEN 90 * s + 10 * L
        ELSE IF s <= 2 * L THEN 90 * (L - s) + 100 * L
        ELSE 90 * (2 * L - s) + 10 * L

\* lr_func of the one_cycle schedule, times 100 * schedule_length
lr_func_one_cycle(s) ==
    LET L == args.schedule_length
    IN  IF s < L THEN 90 * s + 10 * L
        ELSE IF s <= 2 * L THEN 90 * (L - s) + 100 * L
        ELSE 9 * (2 * L - s) + 10 * L

\* the linear schedule counted from step 0 instead of step_first
lr_func_linear_absolute(s, first) == 100 * args.schedule_length - 90 * s

\* lr_func of the linear schedule, times 100 * schedule_length
lr_func_linear(s, first) == 100 * args.schedule_length - 90 * (s - first)

\* the closure lr_func that train hands to LambdaLR; it reads train's step
lr_func(s, first) ==
    IF args.scheduler = "one_cycle" THEN lr_func_one_cycle(s)
    ELSE lr_func_linear(s, first)

\* LambdaLR: the optimizer's rate is its initial rate args.lr times lr_func
LambdaLR(s, first) == (args_lr * lr_func(s, first)) \div Den(args)

\* a save that forgets the global step
save_without_step(ep) ==
    [exists |-> TRUE, model |-> weights, epoch |-> ep, step |-> 0,
     best_valid_loss |-> best_valid_loss]

\* the record the lambda save(ep) hands to torch.save
save(ep) ==
    [exists |-> TRUE, model |-> weights, epoch |-> ep, step |-> step,
     best_valid_loss |-> best_valid_loss]

\* valid_losses[-patience:]
LastLosses(n) ==
    LET len == Len(valid_losses)
    IN  IF n >= len THEN valid_losses ELSE SubSeq(valid_losses, len - n + 1, len)

SeqMin(q) == CHOOSE m \in {q[k] : k \in DOMAIN q} : \A k \in DOMAIN q : m <= q[k]

TrainIdle ==
    /\ pc = "off"
    /\ lr = 0
    /\ optimizer = [lr |-> 0, gen |-> 0]
    /\ epoch = 0
    /\ range_next = 0
    /\ step = 0
    /\ best_valid_loss = 0
    /\ lr_changes = 0
    /\ step_first = 0
    /\ n_epochs = 0
    /\ valid_losses = <<>>
    /\ lr_reset_epoch = 0
    /\ i = 0
    /\ valid_loss = 0
    /\ ret = "none"

Configs ==
    {[scheduler |-> s, schedule_length |-> l, step |-> k, patience |-> p,
      n_epochs |-> MaxEpochs, two_phase |-> b] :
        s \in Schedulers, l \in 0..MaxScheduleLength, k \in 1..MaxAccum,
        p \in 1..MaxPatience, b \in BOOLEAN}

\* a fresh run directory and a command line; --schedule-length is left at its
\* default 0 without a scheduler and is positive with one
Init ==
    /\ BinIdle
    /\ args \in {a \in Configs : (a.scheduler = "none") <=> (a.schedule_length = 0)}
    /\ n_batches \in 1..MaxBatches
    /\ model_pt = NoFile
    /\ best_model_pt = NoFile
    /\ best_model_loss = Inf
    /\ weights = 0
    /\ grad = 0
    /\ mpc = "start"
    /\ runs = 1
    /\ TrainIdle

\* load_model of imet/utils.py: reads the record torch.save wrote, puts its
\* weights into the model and returns it
load_model(file) ==
    [model |-> file.model, epoch |-> file.epoch, step |-> file.step,
     best_valid_loss |-> file.best_valid_loss]

\* a schedule that starts over at step 0 whatever step was restored
TrainStart_schedule_from_zero(n_epochs_arg) ==
    LET state == load_model(model_pt)
        ep0 == IF model_pt.exists THEN state.epoch ELSE 1
        st0 == IF model_pt.exists THEN state.step ELSE 0
        rate == IF args.scheduler # "none" THEN LambdaLR(0, 0) ELSE args_lr
    IN  /\ n_epochs' = IF n_epochs_arg # 0 THEN n_epochs_arg ELSE args.n_epochs
        /\ weights' = IF model_pt.exists THEN state.model ELSE weights
        /\ epoch' = ep0
        /\ step' = st0
        /\ best_valid_loss' = IF model_pt.exists THEN state.best_valid_loss ELSE Inf
        /\ lr_changes' = 0
        /\ step_first' = IF args.scheduler = "linear" THEN st0 ELSE 0
        /\ optimizer' = [lr |-> rate, gen |-> 1]
        /\ lr' = rate
        /\ valid_losses' = <<>>
        /\ lr_reset_epoch' = ep0
        /\ range_next' = ep0
        /\ i' = 0
        /\ valid_loss' = 0
        /\ ret' = "none"
        /\ pc' = "for"

\* lines 191-243: everything train does before its epoch loop
TrainStart(n_epochs_arg) ==
    LET state == load_model(model_pt)
        ep0 == IF model_pt.exists THEN state.epoch ELSE 1
        st0 == IF model_pt.exists THEN state.step ELSE 0
        rate == IF args.scheduler # "none" THEN LambdaLR(st0, st0) ELSE args_lr
    IN  /\ n_epochs' = IF n_epochs_arg # 0 THEN n_epochs_arg ELSE args.n_epochs
        /\ weights' = IF model_pt.exists THEN state.model ELSE weights
        /\ epoch' = ep0
        /\ step' = st0
        /\ best_valid_loss' = IF model_pt.exists THEN state.best_valid_loss ELSE Inf
        /\ lr_changes' = 0
        /\ step_first' = IF args.scheduler = "linear" THEN st0 ELSE 0
        /\ optimizer' = [lr |-> rate, gen |-> 1]
        /\ lr' = rate
        /\ valid_losses' = <<>>
        /\ lr_reset_epoch' = ep0
        /\ range_next' = ep0
        /\ i' = 0
        /\ valid_loss' = 0
        /\ ret' = "none"
        /\ pc' = "for"

\* main, lines 126-127: pretrained and no previous model, the head-only phase
MainTrainHead ==
    /\ mpc = "start"
    /\ args.two_phase
    /\ TrainStart(1)
    /\ mpc' = "head"
    /\ UNCHANGED <<binVars, args, n_batches, model_pt, best_model_pt, best_model_loss,
                   grad, runs>>

\* main, line 128: the head-only phase returned True, the full phase
MainTrainFull ==
    /\ mpc = "head"
    /\ pc = "returned"
    /\ ret = "True"
    /\ TrainStart(0)
    /\ mpc' = "full"
    /\ UNCHANGED <<binVars, args, n_batches, model_pt, best_model_pt, best_model_loss,
                   grad, runs>>

\* main, line 127: the head-only phase returned False
MainSkipFull ==
    /\ mpc = "head"
    /\ pc = "returned"
    /\ ret = "False"
    /\ mpc' = "exit"
    /\ UNCHANGED <<binVars, args, n_batches, model_pt, best_model_pt, best_model_loss,
                   weights, grad, runs, trainVars>>

\* main, line 130: a single training phase
MainTrainOnly ==
    /\ mpc = "start"
    /\ ~args.two_phase
    /\ TrainStart(0)
    /\ mpc' = "full"
    /\ UNCHANGED <<binVars, args, n_batches, model_pt, best_model_pt, best_model_loss,
                   grad, runs>>

\* main returns after its last train call
MainExit ==
    /\ mpc = "full"
    /\ pc = "returned"
    /\ mpc' = "exit"
    /\ UNCHANGED <<binVars, args, n_batches, model_pt, best_model_pt, best_model_loss,
                   weights, grad, runs, trainVars>>

\* the same command is run again on the same run directory: a new process
\* with a freshly built model
Restart ==
    /\ mpc = "exit"
    /\ runs < MaxRuns
    /\ runs' = runs + 1
    /\ mpc' = "start"
    /\ weights' = 0
    /\ grad' = 0
    /\ pc' = "off"
    /\ lr' = 0
    /\ optimizer' = [lr |-> 0, gen |-> 0]
    /\ epoch' = 0
    /\ range_next' = 0
    /\ step' = 0
    /\ best_valid_loss' = 0
    /\ lr_changes' = 0
    /\ step_first' = 0
    /\ n_epochs' = 0
    /\ valid_losses' = <<>>
    /\ lr_reset_epoch' = 0
    /\ i' = 0
    /\ valid_loss' = 0
    /\ ret' = "none"
    /\ UNCHANGED <<binVars, args, n_batches, model_pt, best_model_pt, best_model_loss>>

\* line 244: for epoch in range(epoch, n_epochs + 1), and line 306
ForEpoch ==
    /\ pc = "for"
    /\ IF range_next <= n_epochs
       THEN /\ epoch' = range_next
            /\ range_next' = range_next + 1
            /\ i' = 0
            /\ pc' = "batch"
            /\ ret' = ret
       ELSE /\ ret' = "True"
            /\ pc' = "returned"
            /\ UNCHANGED <<epoch, range_next, i>>
    /\ UNCHANGED <<binVars, runVars, lr, optimizer, step, best_valid_loss, lr_changes,
                   step_first, n_epochs, valid_losses, lr_reset_epoch, valid_loss>>

\* where the batch loop goes after batch i (0-based)
AfterBatch == IF i + 1 < n_batches THEN "batch" ELSE "save"

\* the update taken after the batches whose 0-based index is a multiple of
\* args.step
Batch_zero_based ==
    /\ pc = "batch"
    /\ grad' = grad + 1
    /\ IF i % args.step = 0
       THEN pc' = "opt_step" /\ i' = i
       ELSE pc' = AfterBatch /\ i' = i + 1
    /\ UNCHANGED <<binVars, args, n_batches, model_pt, best_model_pt, best_model_loss,
                   weights, mpc, runs, lr, optimizer, epoch, range_next, step,
                   best_valid_loss, lr_changes, step_first, n_epochs, valid_losses,
                   lr_reset_epoch, valid_loss, ret>>

\* lines 256-263: forward and backward of batch i
Batch ==
    /\ pc = "batch"
    /\ grad' = grad + 1
    /\ IF (i + 1) % args.step = 0
       THEN pc' = "opt_step" /\ i' = i
       ELSE pc' = AfterBatch /\ i' = i + 1
    /\ UNCHANGED <<binVars, args, n_batches, model_pt, best_model_pt, best_model_loss,
                   weights, mpc, runs, lr, optimizer, epoch, range_next, step,
                   best_valid_loss, lr_changes, step_first, n_epochs, valid_losses,
                   lr_reset_epoch, valid_loss, ret>>

\* line 264: optimizer.step()
OptStep ==
    /\ pc = "opt_step"
    /\ weights' = weights + 1
    /\ pc' = "zero_grad"
    /\ UNCHANGED <<binVars, args, n_batches, model_pt, best_model_pt, best_model_loss,
                   grad, mpc, runs, lr, optimizer, epoch, range_next, step,
                   best_valid_loss, lr_changes, step_first, n_epochs, valid_losses,
                   lr_reset_epoch, i, valid_loss, ret>>

\* line 265: optimizer.zero_grad()
ZeroGrad ==
    /\ pc = "zero_grad"
    /\ grad' = 0
    /\ pc' = "step_inc"
    /\ UNCHANGED <<binVars, args, n_batches, model_pt, best_model_pt, best_model_loss,
                   weights, mpc, runs, lr, optimizer, epoch, range_next, step,
                   best_valid_loss, lr_changes, step_first, n_epochs, valid_losses,
                   lr_reset_epoch, i, valid_loss, ret>>

\* lines 266-267: step += 1
StepInc ==
    /\ pc = "step_inc"
    /\ step' = step + 1
    /\ IF args.scheduler # "none"
       THEN pc' = "sched_step" /\ i' = i
       ELSE pc' = AfterBatch /\ i' = i + 1
    /\ UNCHANGED <<binVars, runVars, lr, optimizer, epoch, range_next, best_valid_loss,
                   lr_changes, step_first, n_epochs, valid_losses, lr_reset_epoch,
                   valid_loss, ret>>

\* lines 268-269: scheduler.step() and lr = optimizer.param_groups[0]['lr']
SchedStep ==
    /\ pc = "sched_step"
    /\ optimizer' = [optimizer EXCEPT !.lr = LambdaLR(step, step_first)]
    /\ lr' = LambdaLR(step, step_first)
    /\ pc' = AfterBatch
    /\ i' = i + 1
    /\ UNCHANGED <<binVars, runVars, epoch, range_next, step, best_valid_loss,
                   lr_changes, step_first, n_epochs, valid_losses, lr_reset_epoch,
                   valid_loss, ret>>

\* the end-of-epoch save left out: validation runs on an unsaved epoch
EpochSave_skipped ==
    /\ pc = "save"
    /\ pc' = "validate"
    /\ UNCHANGED <<binVars, runVars, lr, optimizer, epoch, range_next, step,
                   best_valid_loss, lr_changes, step_first, n_epochs, valid_losses,
                   lr_reset_epoch, i, valid_loss, ret>>

\* line 278: save(epoch + 1)
EpochSave ==
    /\ pc = "save"
    /\ model_pt' = save(epoch + 1)
    /\ pc' = "validate"
    /\ UNCHANGED <<binVars, args, n_batches, best_model_pt, best_model_loss, weights,
                   grad, mpc, runs, lr, optimizer, epoch, range_next, step,
                   best_valid_loss, lr_changes, step_first, n_epochs, valid_losses,
                   lr_reset_epoch, i, valid_loss, ret>>

\* lines 279-285: validation, and the loss appended to valid_losses
Validate ==
    /\ pc = "validate"
    /\ \E v \in 1..MaxLoss :
        /\ valid_loss' = v
        /\ valid_losses' = Append(valid_losses, v)
    /\ pc' = "lr_update"
    /\ UNCHANGED <<binVars, runVars, lr, optimizer, epoch, range_next, step,
                   best_valid_loss, lr_changes, step_first, n_epochs, lr_reset_epoch,
                   i, ret>>

\* the decay allowed one epoch too early
DecayCondition_early ==
    /\ args.patience # 0
    /\ epoch - lr_reset_epoch >= args.patience
    /\ SeqMin(LastLosses(args.patience)) > best_valid_loss
    /\ args.scheduler = "none"

\* the patience test applied under a scheduler as well
DecayCondition_any_scheduler ==
    /\ args.patience # 0
    /\ epoch - lr_reset_epoch > args.patience
    /\ SeqMin(LastLosses(args.patience)) > best_valid_loss

\* the condition of the elif on lines 289-291
DecayCondition ==
    /\ args.patience # 0
    /\ epoch - lr_reset_epoch > args.patience
    /\ SeqMin(LastLosses(args.patience)) > best_valid_loss
    /\ args.scheduler = "none"

\* the loop goes on after the last allowed rate change
LrUpdate_no_break ==
    /\ pc = "lr_update"
    /\ IF valid_loss < best_valid_loss
       THEN /\ best_valid_loss' = valid_loss
            /\ best_model_pt' = model_pt
            /\ best_model_loss' = valid_loss
            /\ UNCHANGED <<lr_changes, lr, lr_reset_epoch, optimizer>>
       ELSE IF DecayCondition
       THEN /\ lr_changes' = lr_changes + 1
            /\ lr' = lr \div 5
            /\ lr_reset_epoch' = epoch
            /\ optimizer' = [lr |-> lr \div 5, gen |-> optimizer.gen + 1]
            /\ UNCHANGED <<best_valid_loss, best_model_pt, best_model_loss>>
       ELSE UNCHANGED <<best_valid_loss, best_model_pt, best_model_loss, lr_changes, lr,
                        lr_reset_epoch, optimizer>>
    /\ pc' = "for"
    /\ UNCHANGED <<binVars, args, n_batches, model_pt, weights, grad, mpc, runs,
                   epoch, range_next, step, step_first, n_epochs, valid_losses, i,
                   valid_loss, ret>>

\* the best snapshot promoted on an equal loss as well
LrUpdate_promote_equal ==
    /\ pc = "lr_update"
    /\ IF valid_loss <= best_valid_loss
       THEN /\ best_valid_loss' = valid_loss
            /\ best_model_pt' = model_pt
            /\ best_model_loss' = valid_loss
            /\ pc' = "for"
            /\ UNCHANGED <<lr_changes, lr, lr_reset_epoch, optimizer, ret>>
       ELSE /\ pc' = "for"
            /\ UNCHANGED <<best_valid_loss, best_model_pt, best_model_loss, lr_changes,
                           lr, lr_reset_epoch, optimizer, ret>>
    /\ UNCHANGED <<binVars, args, n_batches, model_pt, weights, grad, mpc, runs,
                   epoch, range_next, step, step_first, n_epochs, valid_losses, i,
                   valid_loss>>

\* lines 286-299: promote the best snapshot, or decay the rate, or stop
LrUpdate ==
    /\ pc = "lr_update"
    /\ IF valid_loss < best_valid_loss
       THEN /\ best_valid_loss' = valid_loss
            /\ best_model_pt' = model_pt
            /\ best_model_loss' = valid_loss
            /\ pc' = "for"
            /\ UNCHANGED <<lr_changes, lr, lr_reset_epoch, optimizer, ret>>
       ELSE IF DecayCondition
       THEN /\ lr_changes' = lr_changes + 1
            /\ IF lr_changes + 1 > max_lr_changes
               THEN /\ ret' = "True"
                    /\ pc' = "returned"
                    /\ UNCHANGED <<lr, lr_reset_epoch, optimizer>>
               ELSE /\ lr' = lr \div 5
                    /\ lr_reset_epoch' = epoch
                    /\ optimizer' = [lr |-> lr \div 5, gen |-> optimizer.gen + 1]
                    /\ pc' = "for"
                    /\ ret' = ret
            /\ UNCHANGED <<best_valid_loss, best_model_pt, best_model_loss>>
       ELSE /\ pc' = "for"
            /\ UNCHANGED <<best_valid_loss, best_model_pt, best_model_loss, lr_changes, lr,
                           lr_reset_epoch, optimizer, ret>>
    /\ UNCHANGED <<binVars, args, n_batches, model_pt, weights, grad, mpc, runs,
                   epoch, range_next, step, step_first, n_epochs, valid_losses, i,
                   valid_loss>>

\* an interrupt handler that saves the checkpoint of a completed epoch
Interrupt_next_epoch ==
    /\ pc \in TryPcs
    /\ model_pt' = save(epoch + 1)
    /\ ret' = "False"
    /\ pc' = "returned"
    /\ UNCHANGED <<binVars, args, n_batches, best_model_pt, best_model_loss, weights,
                   grad, mpc, runs, lr, optimizer, epoch, range_next, step,
                   best_valid_loss, lr_changes, step_first, n_epochs, valid_losses,
                   lr_reset_epoch, i, valid_loss>>

\* lines 300-305: KeyboardInterrupt caught anywhere in the try block
Interrupt ==
    /\ pc \in TryPcs
    /\ model_pt' = save(epoch)
    /\ ret' = "False"
    /\ pc' = "returned"
    /\ UNCHANGED <<binVars, args, n_batches, best_model_pt, best_model_loss, weights,
                   grad, mpc, runs, lr, optimizer, epoch, range_next, step,
                   best_valid_loss, lr_changes, step_first, n_epochs, valid_losses,
                   lr_reset_epoch, i, valid_loss>>

Next ==
    \/ MainTrainHead
    \/ MainTrainFull
    \/ MainSkipFull
    \/ MainTrainOnly
    \/ MainExit
    \/ Restart
    \/ ForEpoch
    \/ Batch
    \/ OptStep
    \/ ZeroGrad
    \/ StepInc
    \/ SchedStep
    \/ EpochSave
    \/ Validate
    \/ LrUpdate
    \/ Interrupt

Spec == Init /\ [][Next]_vars

(***************************************************************************)
(* binarize_prediction on its own: inputs drawn, ranking taken, thresholds *)
(* tried one after another.                                                *)
(***************************************************************************)
InitBinSpec ==
    /\ InitBin
    /\ args = [scheduler |-> "none", schedule_length |-> 0, step |-> 1, patience |-> 1,
               n_epochs |-> MaxEpochs, two_phase |-> FALSE]
    /\ n_batches = 1
    /\ model_pt = NoFile
    /\ best_model_pt = NoFile
    /\ best_model_loss = Inf
    /\ weights = 0
    /\ grad = 0
    /\ mpc = "off"
    /\ runs = 1
    /\ TrainIdle

NextBin ==
    \/ Argsort /\ UNCHANGED <<runVars, trainVars>>
    \/ BinarizeCall /\ UNCHANGED <<runVars, trainVars>>

SpecBin == InitBinSpec /\ [][NextBin]_vars

(***************************************************************************)
(* Properties of binarize_prediction (checked under SpecBin)               *)
(***************************************************************************)
Rows == 1..Len(probabilities)

\* class c is among the n highest-ranked classes of row r of the ranking
InTop(r, c, n) ==
    \E k \in (N_CLASSES - Min2(n, N_CLASSES) + 1)..N_CLASSES : argsorted[r][k] = c

\* C1 as stated: for every 1 <= min_labels <= max_labels every row of the
\* result has at least min_labels and at most max_labels ones.
C1_RowBoundsAnyMinLabels ==
    bpc = "binarized" =>
        \A r \in Rows : /\ Ones(prediction[r]) >= min_labels
                        /\ Ones(prediction[r]) <= max_labels

\* C1 amended: when min_labels does not exceed the number of classes, every
\* row of the result has at least min_labels and at most max_labels ones.
C1_RowBounds ==
    (bpc = "binarized" /\ min_labels <= N_CLASSES) =>
        \A r \in Rows : /\ Ones(prediction[r]) >= min_labels
                        /\ Ones(prediction[r]) <= max_labels

\* a two-row result where one row is filled up to max_labels and the other is
\* held at min_labels
C1_Witness ==
    /\ bpc = "binarized"
    /\ Len(probabilities) = 2
    /\ min_labels < max_labels
    /\ max_labels < N_CLASSES
    /\ Ones(prediction[1]) = max_labels
    /\ Ones(prediction[2]) = min_labels

\* rows 0 and 1 of the end-to-end scenario select {0, 1} and exactly one class
C2_Scenario ==
    (/\ bpc = "binarized"
     /\ probabilities = ScenarioProbabilities
     /\ threshold = 3
     /\ min_labels = 1
     /\ max_labels = 2) =>
        /\ prediction[1] = <<1, 1, 0>>
        /\ Ones(prediction[2]) = 1

\* C2: every row is decided on its own: output[r][c] = 1 exactly when (c is
\* among row r's max_labels highest-ranked classes and probabilities[r][c] >
\* threshold) or c is among row r's min_labels highest-ranked classes; and the
\* end-to-end scenario gives {0, 1} and one class.
C2_SelectionRule ==
    /\ bpc = "binarized" =>
        \A r \in Rows : \A c \in 1..N_CLASSES :
            (prediction[r][c] = 1) <=>
                \/ InTop(r, c, max_labels) /\ probabilities[r][c] > threshold
                \/ InTop(r, c, min_labels)
    /\ C2_Scenario

\* C3: for thresholds t1 <= t2 on the same matrix, ranking, min_labels and
\* max_labels, every row selects at least as many labels at t1 as at t2, and
\* never more than max_labels.
C3_ThresholdMonotone ==
    bpc = "binarized" =>
        \A t2 \in Thresholds : threshold <= t2 =>
            \A r \in Rows :
                /\ Ones(prediction[r]) >=
                     Ones(binarize_prediction(probabilities, t2, argsorted,
                                              min_labels, max_labels)[r])
                /\ Ones(prediction[r]) <= max_labels

\* a row that loses a label when the threshold is raised
C3_Witness ==
    /\ bpc = "binarized"
    /\ \E t2 \in Thresholds : \E r \in Rows :
        /\ threshold < t2
        /\ Ones(prediction[r]) >
             Ones(binarize_prediction(probabilities, t2, argsorted,
                                      min_labels, max_labels)[r])

(***************************************************************************)
(* Properties of train and main (checked under Spec)                       *)
(***************************************************************************)
\* an epoch of this train invocation has just been completed
EpochCompleted == pc = "for" /\ Len(valid_losses) > 0

\* the validation losses of the last n completed epochs of this invocation
LastEpochs(n) == (Len(valid_losses) - n + 1)..Len(valid_losses)

\* the last three completed epochs did not improve on the best so far: each
\* loss is above the best, or no lower than the loss of an earlier epoch
ThreeNonImproving ==
    /\ Len(valid_losses) >= 3
    /\ \A k \in LastEpochs(3) :
        \/ valid_losses[k] > best_valid_loss
        \/ \E j \in 1..(Len(valid_losses) - 3) : valid_losses[j] <= valid_losses[k]

\* exactly one decay has happened in this invocation, at the epoch just completed
OneDecayAtThisEpoch ==
    /\ lr_changes = 1
    /\ lr_reset_epoch = epoch
    /\ 5 * lr = args_lr
    /\ optimizer = [lr |-> lr, gen |-> 2]

\* no decay has happened in this invocation
NoDecayYet ==
    /\ lr_changes = 0
    /\ lr = args_lr
    /\ optimizer = [lr |-> args_lr, gen |-> 1]

\* C4 as stated: with patience 2 and no scheduler, whenever three consecutive
\* epochs do not improve on the best validation loss, exactly one decay
\* happens in them, on the third, and lr_changes is 1 afterwards.
C4_DecayOnAnyThirdEpoch ==
    (/\ args.patience = 2
     /\ args.scheduler = "none"
     /\ EpochCompleted
     /\ ThreeNonImproving) => OneDecayAtThisEpoch

\* C4 amended: with patience 2 and no scheduler, when the three epochs that
\* follow the first epoch of a train invocation each have a validation loss
\* strictly above the best so far, no decay happens on the first two of them,
\* one decay (lr divided by 5, optimizer recreated) happens on the third, and
\* lr_changes is 1 afterwards.
C4_DecayOnThirdEpoch ==
    (/\ args.patience = 2
     /\ args.scheduler = "none"
     /\ EpochCompleted
     /\ Len(valid_losses) \in 2..4
     /\ \A k \in 2..Len(valid_losses) : valid_losses[k] > best_valid_loss) =>
        IF Len(valid_losses) = 4 THEN OneDecayAtThisEpoch ELSE NoDecayYet

\* the fourth epoch of an invocation ended with the decay
C4_Witness ==
    /\ args.patience = 2
    /\ args.scheduler = "none"
    /\ EpochCompleted
    /\ Len(valid_losses) = 4
    /\ \A k \in 2..4 : valid_losses[k] > best_valid_loss
    /\ lr_changes = 1
    /\ 5 * lr = args_lr

\* C5: the rate is divided by 5 at most max_lr_changes times in one train
\* invocation; when the decay condition fires once more the loop stops at
\* once, without another division, batch or epoch, and train returns True.
C5_StopAfterMaxLrChanges ==
    /\ lr_changes <= max_lr_changes + 1
    /\ (args.scheduler = "none" /\ pc # "off") =>
        /\ lr_changes <= max_lr_changes => lr * 5 ^ lr_changes = args_lr
        /\ lr * 5 ^ max_lr_changes >= args_lr
        /\ optimizer.lr = lr
    /\ lr_changes > max_lr_changes =>
        /\ pc = "returned"
        /\ ret = "True"
        /\ range_next = epoch + 1
        /\ optimizer.gen = max_lr_changes + 1

\* train has stopped on the decay that exceeds max_lr_changes
C5_Witness ==
    /\ lr_changes = max_lr_changes + 1
    /\ pc = "returned"
    /\ ret = "True"
    /\ epoch < n_epochs
    /\ lr * 5 ^ max_lr_changes = args_lr

\* C6: an interrupt caught while epoch e is processed writes a checkpoint with
\* epoch e, the current step and best_valid_loss, processes nothing further
\* and makes train return False; main then does not start the full phase.
C6_InterruptCheckpoint ==
    /\ [][(pc \in TryPcs /\ pc' = "returned" /\ ret' = "False") =>
            /\ model_pt' = [exists |-> TRUE, model |-> weights, epoch |-> epoch,
                            step |-> step, best_valid_loss |-> best_valid_loss]
            /\ UNCHANGED <<weights, grad, step, epoch, best_valid_loss,
                           best_model_pt, best_model_loss, valid_losses, lr_changes, lr>>]_vars
    /\ [][(pc = "returned" /\ ret = "False" /\ mpc # "exit") =>
            /\ mpc' = "exit"
            /\ UNCHANGED <<weights, grad, model_pt, best_model_pt, best_model_loss,
                           trainVars>>]_vars

\* the head-only phase was interrupted in its epoch and main has returned
C6_Witness ==
    /\ mpc = "exit"
    /\ args.two_phase
    /\ n_epochs = 1
    /\ ret = "False"
    /\ step > 0
    /\ model_pt = [exists |-> TRUE, model |-> weights, epoch |-> 1, step |-> step,
                   best_valid_loss |-> best_valid_loss]

C8_CheckpointHoldsBest ==
    EpochCompleted =>
        /\ model_pt.exists
        /\ model_pt.epoch = epoch + 1
        /\ model_pt.step = step
        /\ model_pt.best_valid_loss = best_valid_loss

\* train is running and is not between step += 1 and scheduler.step()
ScheduleSettled == pc \in ({"for"} \cup TryPcs) \ {"sched_step"}

\* C9: under one_cycle the rate is args.lr times 0.9 s / L + 0.1 for s < L,
\* 0.9 (L - s) / L + 1 for L <= s <= 2 L, 0.1 * 0.9 (2 L - s) / L + 0.1 for
\* s > 2 L, s the global step: 0.1 at s = 0, 1.0 at s = L, 0.1 at s = 2 L.
C9_OneCycle ==
    (args.scheduler = "one_cycle" /\ ScheduleSettled) =>
        LET L == args.schedule_length
            s == step
        IN  /\ optimizer.lr = lr
            /\ s < L => 100 * L * lr = args_lr * (90 * s + 10 * L)
            /\ (L <= s /\ s <= 2 * L) => 100 * L * lr = args_lr * (90 * (L - s) + 100 * L)
            /\ s > 2 * L => 100 * L * lr = args_lr * (9 * (2 * L - s) + 10 * L)
            /\ s = 0 => 10 * lr = args_lr
            /\ s = L => lr = args_lr
            /\ s = 2 * L => 10 * lr = args_lr

\* the schedule has run past 2 L
C9_Witness ==
    /\ args.scheduler = "one_cycle"
    /\ ScheduleSettled
    /\ step > 2 * args.schedule_length
    /\ 100 * args.schedule_length * lr < 10 * args.schedule_length * args_lr

\* C10 as stated: under linear the multiplier is 1.0 at the step at which
\* train created the schedule, decreases linearly and is 0 exactly L steps
\* later.
C10_LinearReachesZero ==
    (args.scheduler = "linear" /\ ScheduleSettled) =>
        /\ step = step_first => lr = args_lr
        /\ step > step_first => lr < args_lr
        /\ step = step_first + args.schedule_length => lr = 0

\* C10 amended: under linear the multiplier is 1.0 at the step at which train
\* created the schedule, decreases by 0.9 / L with each optimizer step, and is
\* 0.1 exactly L steps later.
C10_Linear ==
    (args.scheduler = "linear" /\ ScheduleSettled) =>
        LET L == args.schedule_length
        IN  /\ optimizer.lr = lr
            /\ 100 * L * lr = args_lr * (100 * L - 90 * (step - step_first))
            /\ step = step_first => lr = args_lr
            /\ step = step_first + L => 10 * lr = args_lr

\* a resumed linear schedule, L steps after train created it
C10_Witness ==
    /\ args.scheduler = "linear"
    /\ ScheduleSettled
    /\ step_first > 0
    /\ step = step_first + args.schedule_length
    /\ 10 * lr = args_lr

EarlierLosses ==
    IF pc = "lr_update" THEN SubSeq(valid_losses, 1, Len(valid_losses) - 1)
    ELSE valid_losses

\* C12: within one train invocation best-model.pt is overwritten in an epoch
\* if and only if that epoch's validation loss is strictly below the best
\* recorded so far (the restored best_valid_loss and every earlier loss of
\* the invocation); no other step touches it (not a decay, an equal loss or
\* an interrupt), and after a promotion it is the checkpoint of the weights
\* that were just validated.
C12_BestSnapshot ==
    /\ [](pc \in {"for"} \cup TryPcs =>
            \A k \in DOMAIN EarlierLosses : best_valid_loss <= EarlierLosses[k])
    /\ [][best_model_pt' # best_model_pt =>
            /\ pc = "lr_update"
            /\ valid_loss < best_valid_loss
            /\ \A k \in DOMAIN EarlierLosses : valid_loss < EarlierLosses[k]
            /\ best_model_pt' = model_pt
            /\ best_model_pt'.model = weights
            /\ best_model_pt'.epoch = epoch + 1
            /\ UNCHANGED <<weights, model_pt>>]_vars
    /\ [][(pc = "lr_update" /\ ret' # "False" /\ valid_loss < best_valid_loss) =>
            /\ best_model_pt' # best_model_pt
            /\ best_model_pt' = model_pt
            /\ best_valid_loss' = valid_loss]_vars
    /\ [][(pc = "lr_update" /\ valid_loss >= best_valid_loss) =>
            UNCHANGED <<best_model_pt, best_valid_loss>>]_vars

\* the second epoch of an invocation undercut the first and was promoted
C12_Witness ==
    /\ EpochCompleted
    /\ Len(valid_losses) = 2
    /\ valid_losses[2] < valid_losses[1]
    /\ best_valid_loss = valid_losses[2]
    /\ best_model_pt = model_pt
    /\ best_model_pt.model = weights
    /\ best_model_pt.epoch = epoch + 1
    /\ weights > 0

\* C13: across the train invocations on one run directory best-model.pt holds
\* the weights of the completed epoch with the lowest validation loss so far:
\* a promotion never replaces it by weights whose validation loss is higher
\* than the loss of the weights it held.
C13_BestSnapshotNeverWorse ==
    [][(best_model_pt' # best_model_pt /\ best_model_pt.exists) =>
            best_model_loss' <= best_model_loss]_vars

\* optimizer updates due after the first n batches of an epoch
UpdatesAfter(n) == n \div args.step

\* C14: with k = args.step, forward and backward run on every batch; the
\* optimizer update, the gradient reset and step += 1 follow one another
\* exactly after the batches whose 1-based index in the epoch is a multiple
\* of k, so the global step and the weights have advanced by floor(n / k)
\* after n batches of the epoch (model.pt holds both as they were when the
\* epoch began); with a scheduler, the rate follows every such update.
C14_GradientAccumulation ==
    /\ [](pc \in {"batch", "save"} =>
            /\ step = model_pt.step + UpdatesAfter(i)
            /\ weights = model_pt.model + UpdatesAfter(i))
    /\ [](pc = "save" => i = n_batches)
    /\ [](pc \in {"opt_step", "zero_grad", "step_inc", "sched_step"} =>
            /\ (i + 1) % args.step = 0
            /\ weights = model_pt.model + UpdatesAfter(i + 1)
                            - (IF pc = "opt_step" THEN 1 ELSE 0)
            /\ step = model_pt.step + UpdatesAfter(i + 1)
                            - (IF pc = "sched_step" THEN 0 ELSE 1)
            /\ pc \in {"step_inc", "sched_step"} => grad = 0
            /\ pc = "sched_step" => args.scheduler # "none")
    /\ []((args.scheduler # "none" /\ pc \in {"batch", "save"}) =>
            /\ optimizer.lr = LambdaLR(step, step_first)
            /\ lr = optimizer.lr)
    /\ [][(pc = "batch" /\ ret' # "False") =>
            /\ grad' = grad + 1
            /\ UNCHANGED <<weights, step, lr>>]_vars
    /\ [][(pc = "step_inc" /\ ret' # "False" /\ args.scheduler # "none") =>
            pc' = "sched_step"]_vars

\* a later epoch of three batches with k = 2 has finished its batch loop
\* with one update and one batch left over, under a scheduler
C14_Witness ==
    /\ pc = "save"
    /\ n_batches = 3
    /\ args.step = 2
    /\ args.scheduler # "none"
    /\ model_pt.step > 0
    /\ step = model_pt.step + 1
    /\ weights = model_pt.model + 1
    /\ grad > 0

\* C15: the two rate policies are never combined. With a scheduler, whatever
\* the validation losses, lr_changes stays 0, the optimizer is the one train
\* created, the rate is the scheduled one and train returns True only when
\* the epoch loop is exhausted; without a scheduler the rate changes only at
\* the end of an epoch, and only by a division by 5.
C15_PoliciesNotCombined ==
    /\ []((args.scheduler # "none" /\ pc # "off") =>
            /\ lr_changes = 0
            /\ optimizer.gen = 1
            /\ ret = "True" => range_next > n_epochs
            /\ ScheduleSettled =>
                /\ lr = LambdaLR(step, step_first)
                /\ optimizer.lr = lr)
    /\ [][(args.scheduler = "none" /\ pc \in TryPcs /\ lr' # lr) =>
            /\ pc = "lr_update"
            /\ 5 * lr' = lr
            /\ optimizer'.lr = lr'
            /\ lr_changes' = lr_changes + 1]_vars
    /\ [][(args.scheduler = "none" /\ pc \in TryPcs
                /\ (optimizer' # optimizer \/ lr_changes' # lr_changes)) =>
            pc = "lr_update"]_vars

\* under a scheduler train went through all its epochs although every epoch
\* after the first failed to improve, far beyond the patience
C15_Witness ==
    /\ args.scheduler # "none"
    /\ pc = "returned"
    /\ ret = "True"
    /\ Len(valid_losses) = MaxEpochs
    /\ \A k \in 2..Len(valid_losses) : valid_losses[k] > best_valid_loss
    /\ epoch - lr_reset_epoch > 3 * args.patience
    /\ lr_changes = 0
    /\ step > 0

\* the rate of a run that was never interrupted, at global step s: its
\* schedule was created at step 0
UninterruptedRate(s) == LambdaLR(s, 0)

\* C16 as stated: for one_cycle and for linear the rate at a global step is
\* the one an uninterrupted run has at that step, also in an invocation that
\* restored its step from a checkpoint.
C16_SchedulePureInStep ==
    (args.scheduler # "none" /\ ScheduleSettled) => lr = UninterruptedRate(step)

\* C16 amended: train starts at the restored step; under one_cycle the rate
\* at every global step is the one of an uninterrupted run, from the start
\* of the invocation on; under linear the schedule is counted from the
\* restored step, so the invocation starts at multiplier 1.0 again and its
\* rate is args.lr * (1 - 0.9 (step - step_first) / L).
C16_ScheduleOnResume ==
    /\ []((args.scheduler = "one_cycle" /\ ScheduleSettled) =>
            /\ lr = UninterruptedRate(step)
            /\ optimizer.lr = lr)
    /\ []((args.scheduler = "linear" /\ ScheduleSettled) =>
            /\ step_first <= step
            /\ lr = UninterruptedRate(step - step_first)
            /\ optimizer.lr = lr)
    /\ [][(pc \in {"off", "returned"} /\ pc' = "for") =>
            /\ step' = IF model_pt.exists THEN model_pt.step ELSE 0
            /\ args.scheduler = "linear" => (step_first' = step' /\ lr' = args_lr)
            /\ args.scheduler = "one_cycle" => lr' = UninterruptedRate(step')]_vars
    /\ [][(pc \in TryPcs) => UNCHANGED <<step_first>>]_vars

\* a second process resumed a one_cycle run past its first step and is at
\* its first optimizer update
C16_Witness ==
    /\ args.scheduler = "one_cycle"
    /\ runs = 2
    /\ pc = "opt_step"
    /\ valid_losses = <<>>
    /\ step = model_pt.step
    /\ step > args.schedule_length
    /\ lr = UninterruptedRate(step)
    /\ lr # UninterruptedRate(0)

\* the first train invocation on a fresh run directory: no checkpoint was
\* restored, the best loss started at +infinity
FirstInvocation ==
    /\ runs = 1
    /\ mpc = "head" \/ (mpc = "full" /\ ~args.two_phase)

\* epoch number k of the first invocation reached a new minimum
NewMinimum(k) == \A j \in 1..(k - 1) : valid_losses[j] > valid_losses[k]

\* the rate was divided at the end of the epoch just completed
DecayedThisEpoch == pc = "for" /\ lr_changes > 0 /\ lr_reset_epoch = epoch

\* C17 as stated: a decay at the end of epoch e happens only after at least
\* patience + 1 consecutive epochs ending at e without a new minimum of the
\* validation loss.
C17_DecayAfterMoreThanPatience ==
    (FirstInvocation /\ DecayedThisEpoch) =>
        /\ Len(valid_losses) >= args.patience + 1
        /\ \A k \in LastEpochs(args.patience + 1) : ~NewMinimum(k)

\* C17 amended: a decay (or the stop that replaces the third one) at the end
\* of epoch e happens only if the epoch did not improve, the losses of the
\* last `patience` epochs ending at e are all strictly above the best loss,
\* and more than `patience` epochs have passed since lr_reset_epoch, which
\* is the epoch of the last decay or the first epoch of the invocation; two
\* decays are therefore more than `patience` epochs apart.
C17_DecaySpacing ==
    /\ [][lr_changes' = lr_changes + 1 =>
            /\ pc = "lr_update"
            /\ valid_loss >= best_valid_loss
            /\ Len(valid_losses) >= args.patience + 1
            /\ \A k \in LastEpochs(args.patience) : valid_losses[k] > best_valid_loss
            /\ epoch - lr_reset_epoch > args.patience
            /\ lr_reset_epoch' \in {lr_reset_epoch, epoch}
            /\ lr' # lr => lr_reset_epoch' = epoch]_vars
    /\ [][(pc \in TryPcs /\ lr_reset_epoch' # lr_reset_epoch) =>
            lr_changes' = lr_changes + 1]_vars
    /\ [][(pc \in {"off", "returned"} /\ pc' = "for") =>
            (lr_reset_epoch' = epoch' /\ lr_changes' = 0)]_vars

\* the second decay of an invocation with patience 2 has just happened
C17_Witness ==
    /\ DecayedThisEpoch
    /\ args.patience = 2
    /\ lr_changes = 2
    /\ 25 * lr = args_lr
    /\ Len(valid_losses) >= 6
    /\ \A k \in LastEpochs(2) : valid_losses[k] > best_valid_loss

\* C18: every checkpoint train writes, at the end of an epoch or on an
\* interrupt at any point of the batch loop, records as step the number of
\* optimizer updates applied to the weights it stores.
C18_CheckpointStepCountsUpdates ==
    model_pt.exists => model_pt.step = model_pt.model

\* train was interrupted after the batch loop of its current epoch completed
InterruptedAfterBatchLoop ==
    /\ pc = "returned"
    /\ ret = "False"
    /\ i = n_batches

\* C19: in one invocation the epoch numbers strictly increase, and after an
\* interrupt the resumed invocation trains again only an epoch whose batch
\* loop had not completed: an interrupt that arrives after the batch loop of
\* epoch e completed leaves a checkpoint that resumes at epoch e + 1.
C19_CompletedEpochNotRetrained ==
    /\ pc \in TryPcs => (range_next = epoch + 1 /\ epoch <= n_epochs)
    /\ InterruptedAfterBatchLoop => (model_pt.exists /\ model_pt.epoch = epoch + 1)

\* C20: every optimizer update applies the gradient of exactly args.step
\* batches, and the accumulated gradient is empty when the batch loop of an
\* epoch starts.
C20_UpdateFromExactlyStepBatches ==
    /\ pc = "opt_step" => grad = args.step
    /\ (pc = "batch" /\ i = 0) => grad = 0

=============================================================================
